---- MODULE Spec2Model ----
(***************************************************************************)
(* Model of app.py (Twinkle Gallery, a JSONL-backed image/text QA editor). *)
(*                                                                         *)
(*   SpecSan   sanitize_model_output applied once and twice                *)
(*   SpecJsonl write_jsonl followed by read_jsonl (json.dumps/json.loads)  *)
(*   SpecIO    write_jsonl step by step: lock, temporary file, os.replace, *)
(*             with concurrent writers, a reader and interrupted saves     *)
(*   Spec      the editor sessions: add / delete / edit / flag / reload    *)
(*   SpecShared two editor sessions and another process on the same file   *)
(*                                                                         *)
(* A text is a sequence of characters; a character is written as a short   *)
(* ASCII name (pinyin with tone number for the CJK characters of the       *)
(* source, "period" for the ideographic full stop U+3002, "comma" for the  *)
(* full-width comma U+FF0C, "NL" "SP" "TAB" "CR" "IDSP" for whitespace).   *)
(***************************************************************************)
EXTENDS Integers, Sequences, FiniteSets, TLC

VARIABLES
  \* SpecSan: the input text, its sanitized form, that form sanitized again
  san_in, san_once, san_twice, san_pc,
  \* SpecJsonl: the records saved, the lines of the file, the records loaded
  rt_items, rt_file, rt_out, rt_pc,
  \* SpecIO: the directory (name -> inode, 0 for no such name), the content
  \* of every inode, the holder of every lock file
  io_fs, io_inode, io_lock,
  \* each writer's place in write_jsonl, its items, its open temporary file
  \* and its offset in it (in lines)
  w_pc, w_items, w_fd, w_pos,
  \* the reader's place in read_jsonl, its open file, its offset, and the
  \* file as it has seen it
  r_pc, r_fd, r_pos, r_seen,
  \* history: the content at path when each save took the lock, the saves
  \* each writer may still start, the number of renames done when each save
  \* took the lock and in all, and every content a rename has put at path
  w_pre, w_left, w_start, io_commits, io_versions,
  \* Spec: st.session_state of every session (data_items, idx, qa_draft,
  \* auth_user), the file at DATA_JSONL, and what the last script run did
  \* and the script runs still to come
  data_items, idx, qa_draft, auth_user, file, last, runs_left

sanVars == <<san_in, san_once, san_twice, san_pc>>
rtVars  == <<rt_items, rt_file, rt_out, rt_pc>>

fsVars  == <<io_fs, io_inode, io_lock>>
wVars   == <<w_pc, w_items, w_fd, w_pos>>
rVars   == <<r_pc, r_fd, r_pos, r_seen>>
histVars == <<w_pre, w_left, w_start, io_commits, io_versions>>
ioVars  == <<fsVars, wVars, rVars, histVars>>

appVars == <<data_items, idx, qa_draft, auth_user, file, last, runs_left>>

vars == <<sanVars, rtVars, ioVars, appVars>>

\* what the steps of one specification leave alone
notSan == <<rtVars, ioVars, appVars>>
notRt  == <<sanVars, ioVars, appVars>>
notIO  == <<sanVars, rtVars, appVars>>
notApp == <<sanVars, rtVars, ioVars>>

(***************************************************************************)
(* Text helpers                                                            *)
(***************************************************************************)

\* s without its first n characters
Drop(s, n) == SubSeq(s, n + 1, Len(s))

\* p occurs in s at position 1
StartsWith(s, p) == Len(p) <= Len(s) /\ SubSeq(s, 1, Len(p)) = p

EndsWith(s, p) == Len(p) <= Len(s) /\ SubSeq(s, Len(s) - Len(p) + 1, Len(s)) = p

Contains(s, p) == \E i \in 0..(Len(s) - Len(p)) : SubSeq(s, i + 1, i + Len(p)) = p

\* what \s matches and what str.strip() removes (Unicode whitespace)
WS == {"SP", "TAB", "NL", "CR", "IDSP"}

\* the class [ \t]
Blank == {"SP", "TAB"}

\* the characters excluded by the class [^\n<period>]
Stop == {"NL", "period"}

\* length of the longest prefix of s whose characters are all in S
RECURSIVE RunLen(_, _)
RunLen(s, S) == IF s # <<>> /\ Head(s) \in S THEN 1 + RunLen(Tail(s), S) ELSE 0

\* length of the longest prefix of s with no character in S
RECURSIVE RunLenNot(_, _)
RunLenNot(s, S) == IF s # <<>> /\ Head(s) \notin S THEN 1 + RunLenNot(Tail(s), S) ELSE 0

(***************************************************************************)
(* sanitize_model_output, step 1: patterns_remove.                         *)
(* Every pattern is  \s* <phrase> [^\n<period>]* [<period>]?  ; the phrase *)
(* is given as the set of texts its optional groups and alternations       *)
(* expand to.                                                              *)
(***************************************************************************)

\* (?i) zuo4 wei2 yi1 ge4? A I          U+4F5C U+70BA U+4E00 U+500B? "AI"
PatAsAnAI ==
  { <<"zuo4", "wei2", "yi1">> \o g \o <<a, i>> :
      g \in {<<>>, <<"ge4">>}, a \in {"A", "a"}, i \in {"I", "i"} }

\* gen1 ju4 (ben3 zhang1)? tu2 pian4     U+6839 U+64DA (U+672C U+5F35)? U+5716 U+7247
PatPerImage ==
  { <<"gen1", "ju4">> \o g \o <<"tu2", "pian4">> : g \in {<<>>, <<"ben3", "zhang1">>} }

\* cong2 (zhe4 zhang1)? tu2 pian4 (zhong1)? (ke3 yi3|neng2)? kan4 (dao4|chu1)
PatFromImage ==
  { <<"cong2">> \o g1 \o <<"tu2", "pian4">> \o g2 \o g3 \o <<"kan4">> \o g4 :
      g1 \in {<<>>, <<"zhe4", "zhang1">>},
      g2 \in {<<>>, <<"zhong1">>},
      g3 \in {<<>>, <<"ke3", "yi3">>, <<"neng2">>},
      g4 \in {<<"dao4">>, <<"chu1">>} }

\* gen1 ju4 (ti2 gong1 de)? wen2 zi4 (nei4 rong2)?
PatPerText ==
  { <<"gen1", "ju4">> \o g1 \o <<"wen2", "zi4">> \o g2 :
      g1 \in {<<>>, <<"ti2", "gong1", "de">>},
      g2 \in {<<>>, <<"nei4", "rong2">>} }

\* yi1b (ju4|zhao4) ti2 shi4
PatPerPrompt == { <<"yi1b">> \o g \o <<"ti2", "shi4">> : g \in {<<"ju4">>, <<"zhao4">>} }

\* zong1 he2 (yi3 shang4|shang4 shu4) (zi1 xun4|nei4 rong2)
PatSummingUp ==
  { <<"zong1", "he2">> \o g1 \o g2 :
      g1 \in {<<"yi3", "shang4">>, <<"shang4", "shu4">>},
      g2 \in {<<"zi1", "xun4">>, <<"nei4", "rong2">>} }

\* jiu4 (wo3|wo3 men) suo3 (zhi1|jian4)
PatAsFarAs ==
  { <<"jiu4">> \o g1 \o <<"suo3">> \o g2 :
      g1 \in {<<"wo3">>, <<"wo3", "men">>},
      g2 \in {<<"zhi1">>, <<"jian4">>} }

\* ji1 yu2 (ti2b shi4|ti2 gong1)
PatBasedOn == { <<"ji1", "yu2">> \o g : g \in {<<"ti2b", "shi4">>, <<"ti2", "gong1">>} }

\* patterns_remove, in list order
patterns_remove ==
  << PatAsAnAI, PatPerImage, PatFromImage, PatPerText,
     PatPerPrompt, PatSummingUp, PatAsFarAs, PatBasedOn >>

\* Length of the match of  \s* pat [^\n<period>]* [<period>]?  at position 1
\* of s, 0 when there is none.  \s* is greedy and the phrase starts with a
\* non-space character, so the phrase must follow the whole whitespace run;
\* the phrase holds no Stop character, so the greedy class runs from the
\* start of the phrase to the next Stop character (or the end).
MatchLen(pat, s) ==
  LET w == RunLen(s, WS)
      t == Drop(s, w)
      n == RunLenNot(t, Stop)
      e == IF n < Len(t) /\ t[n + 1] = "period" THEN n + 1 ELSE n
  IN  IF \E p \in pat : StartsWith(t, p) THEN w + e ELSE 0

\* re.sub(pat, "", s): leftmost non-overlapping matches removed
RECURSIVE ReSubRemove(_, _)
ReSubRemove(pat, s) ==
  IF s = <<>> THEN <<>>
  ELSE LET m == MatchLen(pat, s)
       IN  IF m > 0 THEN ReSubRemove(pat, Drop(s, m))
           ELSE <<Head(s)>> \o ReSubRemove(pat, Tail(s))

\* for pat in patterns_remove: s = re.sub(pat, "", s)
RECURSIVE RemoveAll(_, _)
RemoveAll(pats, s) ==
  IF pats = <<>> THEN s ELSE RemoveAll(Tail(pats), ReSubRemove(Head(pats), s))

(***************************************************************************)
(* step 2: replacements, a dict iterated in insertion order                *)
(***************************************************************************)

replacements ==
  << \* zong3 jie2 lai2 shuo1 comma -> ""
     <<<<"zong3", "jie2", "lai2", "shuo1", "comma">>, <<>>>>,
     \* zong3 er2 yan2 zhi1b comma -> ""
     <<<<"zong3", "er2", "yan2", "zhi1b", "comma">>, <<>>>>,
     \* zheng3 ti3 lai2 kan4 comma -> ""
     <<<<"zheng3", "ti3", "lai2", "kan4", "comma">>, <<>>>>,
     \* zheng3 ti3 er2 yan2 comma -> ""
     <<<<"zheng3", "ti3", "er2", "yan2", "comma">>, <<>>>>,
     \* yi1 ban1 er2 yan2 comma -> yi1 ban1 lai2 shuo1 comma
     <<<<"yi1", "ban1", "er2", "yan2", "comma">>, <<"yi1", "ban1", "lai2", "shuo1", "comma">>>>,
     \* tong1 chang2 er2 yan2 comma -> tong1 chang2 lai2 shuo1 comma
     <<<<"tong1", "chang2", "er2", "yan2", "comma">>, <<"tong1", "chang2", "lai2", "shuo1", "comma">>>>,
     \* wo3 tui1 ce4 -> kan4 qi3 lai2
     <<<<"wo3", "tui1", "ce4">>, <<"kan4", "qi3", "lai2">>>>,
     \* wo3 ren4 wei2 -> kan4 lai2
     <<<<"wo3", "ren4", "wei2">>, <<"kan4", "lai2">>>>,
     \* wo3 cai1 ce4 -> huo4 xu3
     <<<<"wo3", "cai1", "ce4">>, <<"huo4", "xu3">>>>,
     \* ke3 yi3 kan4 chu1 -> kan4 lai2
     <<<<"ke3", "yi3", "kan4", "chu1">>, <<"kan4", "lai2">>>>,
     \* ke3 yi3 tui1 duan4 -> duo1 ban4
     <<<<"ke3", "yi3", "tui1", "duan4">>, <<"duo1", "ban4">>>>,
     \* kan4 qi3 lai2 xiang4 shi4b -> kan4 qi3 lai2 shi4b
     <<<<"kan4", "qi3", "lai2", "xiang4", "shi4b">>, <<"kan4", "qi3", "lai2", "shi4b">>>> >>

\* s.replace(k, v): leftmost non-overlapping occurrences of the literal k
RECURSIVE StrReplace(_, _, _)
StrReplace(s, k, v) ==
  IF s = <<>> THEN <<>>
  ELSE IF StartsWith(s, k) THEN v \o StrReplace(Drop(s, Len(k)), k, v)
  ELSE <<Head(s)>> \o StrReplace(Tail(s), k, v)

\* for k, v in replacements.items(): s = s.replace(k, v)
RECURSIVE ReplaceAll(_, _)
ReplaceAll(reps, s) ==
  IF reps = <<>> THEN s
  ELSE ReplaceAll(Tail(reps), StrReplace(s, Head(reps)[1], Head(reps)[2]))

(***************************************************************************)
(* step 3: whitespace clean-up                                             *)
(***************************************************************************)

\* re.sub(r"\n{3,}", "\n\n", s)
RECURSIVE CollapseNewlines(_)
CollapseNewlines(s) ==
  IF s = <<>> THEN <<>>
  ELSE LET n == RunLen(s, {"NL"})
       IN  IF n >= 3 THEN <<"NL", "NL">> \o CollapseNewlines(Drop(s, n))
           ELSE <<Head(s)>> \o CollapseNewlines(Tail(s))

\* re.sub(r"[ \t]+(\n)", r"\1", s)
RECURSIVE StripLineEnds(_)
StripLineEnds(s) ==
  IF s = <<>> THEN <<>>
  ELSE LET n == RunLen(s, Blank)
       IN  IF n >= 1 /\ n < Len(s) /\ s[n + 1] = "NL"
           THEN <<"NL">> \o StripLineEnds(Drop(s, n + 1))
           ELSE <<Head(s)>> \o StripLineEnds(Tail(s))

\* s.strip()
RECURSIVE RStrip(_)
RStrip(s) ==
  IF s # <<>> /\ s[Len(s)] \in WS THEN RStrip(SubSeq(s, 1, Len(s) - 1)) ELSE s

Strip(s) == RStrip(Drop(s, RunLen(s, WS)))

\* the three clean-up statements in the order the code runs them
CleanWhitespace(s) == Strip(StripLineEnds(CollapseNewlines(s)))

\* sanitize_model_output(s)
sanitize_model_output(s) ==
  IF s = <<>> THEN s
  ELSE CleanWhitespace(ReplaceAll(replacements, RemoveAll(patterns_remove, s)))

(***************************************************************************)
(* JSON text.  A line of the file is a sequence of tokens: <<"p", x>> is   *)
(* the punctuation x, <<"s", x>> the string literal x.  A JSON object is a *)
(* function from its keys, an array a sequence, a string a string.         *)
(***************************************************************************)

LBRACE == <<"p", "{">>
RBRACE == <<"p", "}">>
LBRACK == <<"p", "[">>
RBRACK == <<"p", "]">>
COLON  == <<"p", ":">>
COMMA  == <<"p", ",">>
Str(x) == <<"s", x>>

\* the keys of a record and of a turn, in the order their pairs are written
KeyOrder ==
  <<"image_path", "text", "source", "license", "messages", "model", "contributor",
    "role", "content", "ts">>

\* the pairs of the keys of KeyOrder[i..] that obj has, comma separated;
\* text[k] is the text of the value of key k
RECURSIVE DumpsPairs(_, _, _, _)
DumpsPairs(obj, text, i, first) ==
  IF i > Len(KeyOrder) THEN <<>>
  ELSE LET k == KeyOrder[i]
       IN  IF k \in DOMAIN obj
           THEN (IF first THEN <<>> ELSE <<COMMA>>) \o <<Str(k), COLON>> \o text[k]
                  \o DumpsPairs(obj, text, i + 1, FALSE)
           ELSE DumpsPairs(obj, text, i + 1, first)

\* json.dumps of a turn: an object of strings
DumpsTurn(t) ==
  <<LBRACE>> \o DumpsPairs(t, [k \in DOMAIN t |-> <<Str(t[k])>>], 1, TRUE) \o <<RBRACE>>

\* json.dumps of the list of turns
RECURSIVE DumpsTurns(_, _)
DumpsTurns(ms, i) ==
  IF i > Len(ms) THEN <<>>
  ELSE (IF i = 1 THEN <<>> ELSE <<COMMA>>) \o DumpsTurn(ms[i]) \o DumpsTurns(ms, i + 1)

\* json.dumps(obj, ensure_ascii=False) of a record: every key the record has
\* is written, "messages" as the array of its turns as they are
dumps(obj) ==
  LET text == [k \in DOMAIN obj |->
                 IF k = "messages"
                 THEN <<LBRACK>> \o DumpsTurns(obj[k], 1) \o <<RBRACK>>
                 ELSE <<Str(obj[k])>>]
  IN  <<LBRACE>> \o DumpsPairs(obj, text, 1, TRUE) \o <<RBRACE>>

\* the object a sequence of <<key, value>> pairs makes (a repeated key keeps
\* its last value)
MkObj(ps) ==
  [k \in {ps[i][1] : i \in 1..Len(ps)} |->
     ps[CHOOSE i \in 1..Len(ps) :
          ps[i][1] = k /\ \A j \in (i + 1)..Len(ps) : ps[j][1] # k][2]]

ParseFail == [ok |-> FALSE, val |-> <<>>, rest |-> <<>>]
ParseOk(v, rest) == [ok |-> TRUE, val |-> v, rest |-> rest]

IsStr(tok) == tok[1] = "s"

\* json's recursive descent: a value at the head of ts, and what follows it
RECURSIVE ParseValue(_), ParseMembers(_, _), ParseElements(_, _)
ParseValue(ts) ==
  IF ts = <<>> THEN ParseFail
  ELSE IF IsStr(Head(ts)) THEN ParseOk(Head(ts)[2], Tail(ts))
  ELSE IF Head(ts) = LBRACE
       THEN IF Len(ts) >= 2 /\ ts[2] = RBRACE THEN ParseOk(MkObj(<<>>), Drop(ts, 2))
            ELSE ParseMembers(Tail(ts), <<>>)
  ELSE IF Head(ts) = LBRACK
       THEN IF Len(ts) >= 2 /\ ts[2] = RBRACK THEN ParseOk(<<>>, Drop(ts, 2))
            ELSE ParseElements(Tail(ts), <<>>)
  ELSE ParseFail

\* string ":" value, then "," and more pairs, or "}"
ParseMembers(ts, acc) ==
  IF Len(ts) < 3 \/ ~IsStr(ts[1]) \/ ts[2] # COLON THEN ParseFail
  ELSE LET v == ParseValue(Drop(ts, 2))
       IN  IF ~v.ok \/ v.rest = <<>> THEN ParseFail
           ELSE LET ps == Append(acc, <<ts[1][2], v.val>>)
                IN  IF Head(v.rest) = RBRACE THEN ParseOk(MkObj(ps), Tail(v.rest))
                    ELSE IF Head(v.rest) = COMMA THEN ParseMembers(Tail(v.rest), ps)
                    ELSE ParseFail

\* value, then "," and more values, or "]"
ParseElements(ts, acc) ==
  LET v == ParseValue(ts)
  IN  IF ~v.ok \/ v.rest = <<>> THEN ParseFail
      ELSE LET vs == Append(acc, v.val)
           IN  IF Head(v.rest) = RBRACK THEN ParseOk(vs, Tail(v.rest))
               ELSE IF Head(v.rest) = COMMA THEN ParseElements(Tail(v.rest), vs)
               ELSE ParseFail

\* json.loads(ln): one value and nothing after it, else an exception
loads(ln) ==
  LET v == ParseValue(ln)
  IN  IF v.ok /\ v.rest = <<>> THEN v ELSE ParseFail

(***************************************************************************)
(* JSONL I/O on the content of a file: the sequence of its lines           *)
(***************************************************************************)

\* read_jsonl's loop over the lines: an empty line is passed over, a line
\* json.loads raises on is passed over, every other line's value is appended
RECURSIVE ReadLines(_, _)
ReadLines(lines, out) ==
  IF lines = <<>> THEN out
  ELSE LET ln == Head(lines)
       IN  IF ln = <<>> THEN ReadLines(Tail(lines), out)
           ELSE IF loads(ln).ok THEN ReadLines(Tail(lines), Append(out, loads(ln).val))
           ELSE ReadLines(Tail(lines), out)

\* the lines write_jsonl writes for items: json.dumps(obj) + "\n" for each
Serialize(items) == [i \in 1..Len(items) |-> dumps(items[i])]

\* a file: whether it exists, and its lines
NoFile == [exists |-> FALSE, lines |-> <<>>]
FileOf(lines) == [exists |-> TRUE, lines |-> lines]

\* read_jsonl as it would be with the try/except around the whole loop: the
\* first line json.loads raises on ends the load
read_jsonl_abort(f) ==
  LET RECURSIVE UntilBad(_, _)
      UntilBad(lines, out) ==
        IF lines = <<>> THEN out
        ELSE IF Head(lines) = <<>> THEN UntilBad(Tail(lines), out)
        ELSE IF loads(Head(lines)).ok
             THEN UntilBad(Tail(lines), Append(out, loads(Head(lines)).val))
        ELSE out
  IN  IF ~f.exists THEN <<>> ELSE UntilBad(f.lines, <<>>)

\* read_jsonl(path), given the file at path: [] when there is none
read_jsonl(f) == IF ~f.exists THEN <<>> ELSE ReadLines(f.lines, <<>>)

\* the file at path after a write_jsonl(path, items) that ran to its end
write_jsonl(items) == FileOf(Serialize(items))

(***************************************************************************)
(* SpecSan: a text is sanitized, and the result is sanitized again         *)
(***************************************************************************)

\* the phrases the inputs are put together from
TreeClause  == <<"gen1", "ju4", "tu2", "pian4">>
TreeContent == <<"zhe4", "shi4b", "yi1", "ke1", "shu4b", "period">>

Chunks ==
  { TreeClause, <<"gen1">>, <<"ju4", "tu2", "pian4">>,
    <<"zhe4", "shi4b", "yi1", "ke1", "shu4b">>, <<"period">>,
    <<"NL">>, <<"SP">>, <<"IDSP">>,
    \* a line of blanks followed by an empty line
    <<"NL", "SP", "NL", "NL">>,
    <<"zong3">>, <<"jie2", "lai2", "shuo1", "comma">>,
    <<"wo3", "tui1", "ce4">>, <<"xiang4", "shi4b">> }

MaxChunks == 4

RECURSIVE Flatten(_)
Flatten(ss) == IF ss = <<>> THEN <<>> ELSE Head(ss) \o Flatten(Tail(ss))

\* the texts of up to max chunks
SanInputs(max) ==
  UNION { { Flatten(cs) : cs \in [1..n -> Chunks] } : n \in 0..max }

InitSan ==
  /\ san_in \in SanInputs(MaxChunks)
  /\ san_once = <<>>
  /\ san_twice = <<>>
  /\ san_pc = "start"

\* the sanitizer not in use
IdleSan ==
  /\ san_in = <<>>
  /\ san_once = <<>>
  /\ san_twice = <<>>
  /\ san_pc = "idle"

SanitizeOnce ==
  /\ san_pc = "start"
  /\ san_once' = sanitize_model_output(san_in)
  /\ san_pc' = "once"
  /\ UNCHANGED <<san_in, san_twice>>
  /\ UNCHANGED notSan

SanitizeAgain ==
  /\ san_pc = "once"
  /\ san_twice' = sanitize_model_output(san_once)
  /\ san_pc' = "twice"
  /\ UNCHANGED <<san_in, san_once>>
  /\ UNCHANGED notSan

NextSan == SanitizeOnce \/ SanitizeAgain

(***************************************************************************)
(* SpecJsonl: records are saved with write_jsonl, the file may then get a  *)
(* line that is not JSON (another program, a truncated write), and is      *)
(* loaded with read_jsonl                                                  *)
(***************************************************************************)

TurnUser      == [role |-> "user", content |-> "Q"]
TurnAssistant == [role |-> "assistant", content |-> "A"]
\* a turn carrying a field besides role and content
TurnStamped   == [role |-> "user", content |-> "Q", ts |-> "t0"]

RtMessages ==
  { <<>>, <<TurnUser, TurnAssistant>>, <<TurnStamped, TurnAssistant>>, <<TurnUser>> }

\* records: the known fields, with and without an unknown top-level field
RtRecords ==
  { [image_path |-> "a.jpg", text |-> "T1", messages |-> m] : m \in RtMessages }
  \cup
  { [image_path |-> "b.jpg", text |-> "T2", messages |-> m, model |-> "m0",
     license |-> "cc"] : m \in RtMessages }

MaxRecords == 2

\* the stores of up to max records
RtStores(max) == UNION { [1..n -> RtRecords] : n \in 0..max }

SampleLine == dumps([text |-> "T1", messages |-> <<TurnUser>>])

\* lines json.loads raises on: a line cut short, a pair without its colon, a
\* comma with nothing after it, a second value after the first, a stray brace
BadLines ==
  { SubSeq(SampleLine, 1, n) : n \in 1..(Len(SampleLine) - 1) }
  \cup
  { <<LBRACE, Str("text"), Str("T1"), RBRACE>>,
    <<LBRACE, Str("text"), COLON, Str("T1"), COMMA, RBRACE>>,
    <<LBRACK, Str("T1"), COMMA, RBRACK>>,
    SampleLine \o SampleLine,
    <<RBRACE>> }

\* lines with x put in as line number k
InsertAt(lines, k, x) == SubSeq(lines, 1, k - 1) \o <<x>> \o SubSeq(lines, k, Len(lines))

InitJsonl ==
  /\ rt_items \in RtStores(MaxRecords)
  /\ rt_file = NoFile
  /\ rt_out = <<>>
  /\ rt_pc = "start"

\* no file being saved and loaded
IdleJsonl ==
  /\ rt_items = <<>>
  /\ rt_file = NoFile
  /\ rt_out = <<>>
  /\ rt_pc = "idle"

RtSave ==
  /\ rt_pc = "start"
  /\ rt_file' = write_jsonl(rt_items)
  /\ rt_pc' = "saved"
  /\ UNCHANGED <<rt_items, rt_out>>
  /\ UNCHANGED notRt

RtCorrupt ==
  /\ rt_pc = "saved"
  /\ \E k \in 1..(Len(rt_file.lines) + 1), bad \in BadLines \cup {<<>>} :
       rt_file' = FileOf(InsertAt(rt_file.lines, k, bad))
  /\ rt_pc' = "corrupted"
  /\ UNCHANGED <<rt_items, rt_out>>
  /\ UNCHANGED notRt

RtLoad ==
  /\ rt_pc \in {"start", "saved", "corrupted"}
  /\ rt_out' = read_jsonl(rt_file)
  /\ rt_pc' = CASE rt_pc = "start" -> "loaded_missing"
                [] rt_pc = "saved" -> "loaded"
                [] rt_pc = "corrupted" -> "loaded_corrupted"
  /\ UNCHANGED <<rt_items, rt_file>>
  /\ UNCHANGED notRt

NextJsonl == RtSave \/ RtCorrupt \/ RtLoad

(***************************************************************************)
(* SpecIO: write_jsonl step by step.  Writers (sessions, processes) save   *)
(* to the same path; a reader loads it without a lock; a save can be       *)
(* interrupted (an exception, the process killed) at any step.             *)
(***************************************************************************)

\* DATA_JSONL and the two names write_jsonl derives from it
DATA_JSONL == "data.jsonl"

TmpInPlace(path) == path

TmpPath(path) == "data.jsonl.tmp"

LockPathOwn(path, w) == <<"data.jsonl.lock", w>>

\* every writer names the same lock file
LockPath(path, w) == <<"data.jsonl.lock", 0>>

Writers == {1, 2}

\* the saves a writer may start
MaxSaves == 1

LockNames == {LockPath(DATA_JSONL, 0)} \cup {LockPathOwn(DATA_JSONL, w) : w \in Writers}

IoRecA == [image_path |-> "a.jpg", text |-> "T1", messages |-> <<>>]
IoRecB == [image_path |-> "b.jpg", text |-> "T2", messages |-> <<TurnUser, TurnAssistant>>]

\* what a writer may be saving
IoStores == { <<IoRecA, IoRecB>>, <<IoRecB, [IoRecA EXCEPT !.messages = <<TurnUser, TurnAssistant>>]>> }

\* the file before any save: missing, or holding one record
IoInitialFiles == { NoFile, write_jsonl(<<IoRecA>>) }

\* the content of the file a name stands for
ContentAt(name) ==
  IF io_fs[name] = 0 THEN NoFile ELSE FileOf(io_inode[io_fs[name]])

PathContent == ContentAt(DATA_JSONL)

\* content with line written at offset pos (a gap left by a truncation reads
\* as empty lines)
WriteAt(content, pos, line) ==
  IF pos < Len(content) THEN [content EXCEPT ![pos + 1] = line]
  ELSE content \o [i \in 1..(pos - Len(content)) |-> <<>>] \o <<line>>

\* os.replace(src, dst): dst names src's file, src is no name any more; the
\* same name twice changes nothing
OsReplace(fs, src, dst) ==
  IF src = dst THEN fs ELSE [fs EXCEPT ![dst] = fs[src], ![src] = 0]

InitIO ==
  /\ \E f \in IoInitialFiles :
       /\ io_fs = [n \in {DATA_JSONL, TmpPath(DATA_JSONL)} |->
                     IF n = DATA_JSONL /\ f.exists THEN 1 ELSE 0]
       /\ io_inode = IF f.exists THEN <<f.lines>> ELSE <<>>
       /\ io_versions = {f}
  /\ io_lock = [n \in LockNames |-> 0]
  /\ w_pc = [w \in Writers |-> "idle"]
  /\ w_items = [w \in Writers |-> <<>>]
  /\ w_fd = [w \in Writers |-> 0]
  /\ w_pos = [w \in Writers |-> 0]
  /\ w_pre = [w \in Writers |-> NoFile]
  /\ w_left = [w \in Writers |-> MaxSaves]
  /\ w_start = [w \in Writers |-> 0]
  /\ io_commits = 0
  /\ r_pc = "idle"
  /\ r_fd = 0
  /\ r_pos = 0
  /\ r_seen = NoFile

\* the write_jsonl machinery at rest
IdleIO ==
  /\ io_fs = [n \in {DATA_JSONL, TmpPath(DATA_JSONL)} |-> 0]
  /\ io_inode = <<>>
  /\ io_versions = {}
  /\ io_lock = [n \in LockNames |-> 0]
  /\ w_pc = [w \in Writers |-> "off"]
  /\ w_items = [w \in Writers |-> <<>>]
  /\ w_fd = [w \in Writers |-> 0]
  /\ w_pos = [w \in Writers |-> 0]
  /\ w_pre = [w \in Writers |-> NoFile]
  /\ w_left = [w \in Writers |-> 0]
  /\ w_start = [w \in Writers |-> 0]
  /\ io_commits = 0
  /\ r_pc = "off"
  /\ r_fd = 0
  /\ r_pos = 0
  /\ r_seen = NoFile

\* write_jsonl(path, items) is called: makedirs, FileLock(path + ".lock")
WCall(w) ==
  /\ w_pc[w] \in {"idle", "done", "failed"}
  /\ w_left[w] > 0
  /\ \E items \in IoStores : w_items' = [w_items EXCEPT ![w] = items]
  /\ w_left' = [w_left EXCEPT ![w] = @ - 1]
  /\ w_pc' = [w_pc EXCEPT ![w] = "acquire"]
  /\ UNCHANGED <<fsVars, w_fd, w_pos, rVars, w_pre, w_start, io_commits, io_versions>>
  /\ UNCHANGED notIO

\* with lock: blocks until no one holds the lock file
WAcquire(w) ==
  /\ w_pc[w] = "acquire"
  /\ io_lock[LockPath(DATA_JSONL, w)] = 0
  /\ io_lock' = [io_lock EXCEPT ![LockPath(DATA_JSONL, w)] = w]
  /\ w_pc' = [w_pc EXCEPT ![w] = "locked"]
  /\ w_pre' = [w_pre EXCEPT ![w] = PathContent]
  /\ w_start' = [w_start EXCEPT ![w] = io_commits]
  /\ UNCHANGED <<io_fs, io_inode, w_items, w_fd, w_pos, rVars, w_left, io_commits, io_versions>>
  /\ UNCHANGED notIO

\* open(tmp, "w"): a new empty file, or the existing one cut to nothing
WOpenTmp(w) ==
  /\ w_pc[w] = "locked"
  /\ LET tmp == TmpPath(DATA_JSONL)
     IN  IF io_fs[tmp] = 0
         THEN /\ io_inode' = Append(io_inode, <<>>)
              /\ io_fs' = [io_fs EXCEPT ![tmp] = Len(io_inode) + 1]
              /\ w_fd' = [w_fd EXCEPT ![w] = Len(io_inode) + 1]
         ELSE /\ io_inode' = [io_inode EXCEPT ![io_fs[tmp]] = <<>>]
              /\ io_fs' = io_fs
              /\ w_fd' = [w_fd EXCEPT ![w] = io_fs[tmp]]
  /\ w_pos' = [w_pos EXCEPT ![w] = 0]
  /\ w_pc' = [w_pc EXCEPT ![w] = "writing"]
  /\ UNCHANGED <<io_lock, w_items, rVars, histVars>>
  /\ UNCHANGED notIO

\* f.write(json.dumps(obj, ensure_ascii=False) + "\n") for the next obj
WWriteLine(w) ==
  /\ w_pc[w] = "writing"
  /\ w_pos[w] < Len(w_items[w])
  /\ io_inode' = [io_inode EXCEPT ![w_fd[w]] =
                    WriteAt(@, w_pos[w], dumps(w_items[w][w_pos[w] + 1]))]
  /\ w_pos' = [w_pos EXCEPT ![w] = @ + 1]
  /\ UNCHANGED <<io_fs, io_lock, w_pc, w_items, w_fd, rVars, histVars>>
  /\ UNCHANGED notIO

\* the loop is over: the file is closed
WClose(w) ==
  /\ w_pc[w] = "writing"
  /\ w_pos[w] = Len(w_items[w])
  /\ w_fd' = [w_fd EXCEPT ![w] = 0]
  /\ w_pc' = [w_pc EXCEPT ![w] = "replace"]
  /\ UNCHANGED <<fsVars, w_items, w_pos, rVars, histVars>>
  /\ UNCHANGED notIO

\* os.replace(tmp, path)
WReplace(w) ==
  /\ w_pc[w] = "replace"
  /\ io_fs' = OsReplace(io_fs, TmpPath(DATA_JSONL), DATA_JSONL)
  /\ io_commits' = io_commits + 1
  /\ io_versions' = io_versions \cup {write_jsonl(w_items[w])}
  /\ w_pc' = [w_pc EXCEPT ![w] = "release"]
  /\ UNCHANGED <<io_inode, io_lock, w_items, w_fd, w_pos, rVars, w_pre, w_left, w_start>>
  /\ UNCHANGED notIO

\* the with block is left: the lock is released, write_jsonl returns
WRelease(w) ==
  /\ w_pc[w] = "release"
  /\ io_lock' = [io_lock EXCEPT ![LockPath(DATA_JSONL, w)] = 0]
  /\ w_pc' = [w_pc EXCEPT ![w] = "done"]
  /\ UNCHANGED <<io_fs, io_inode, w_items, w_fd, w_pos, rVars, histVars>>
  /\ UNCHANGED notIO

\* the save is interrupted inside the with block, before the rename (a write
\* error raised through the with, or the process killed): the file is closed,
\* the lock is given up, the temporary file stays as it is
WInterrupt(w) ==
  /\ w_pc[w] \in {"locked", "writing", "replace"}
  /\ io_lock' = [io_lock EXCEPT ![LockPath(DATA_JSONL, w)] = 0]
  /\ w_fd' = [w_fd EXCEPT ![w] = 0]
  /\ w_pc' = [w_pc EXCEPT ![w] = "failed"]
  /\ UNCHANGED <<io_fs, io_inode, w_items, w_pos, rVars, histVars>>
  /\ UNCHANGED notIO

\* read_jsonl(path): os.path.exists and open(path, "r")
ROpen ==
  /\ r_pc \in {"idle", "done"}
  /\ IF io_fs[DATA_JSONL] = 0
     THEN /\ r_pc' = "done"
          /\ r_fd' = 0
          /\ r_seen' = NoFile
     ELSE /\ r_pc' = "reading"
          /\ r_fd' = io_fs[DATA_JSONL]
          /\ r_seen' = FileOf(<<>>)
  /\ r_pos' = 0
  /\ UNCHANGED <<fsVars, wVars, histVars>>
  /\ UNCHANGED notIO

\* for ln in f: the next line of the open file
RReadLine ==
  /\ r_pc = "reading"
  /\ r_pos < Len(io_inode[r_fd])
  /\ r_seen' = FileOf(Append(r_seen.lines, io_inode[r_fd][r_pos + 1]))
  /\ r_pos' = r_pos + 1
  /\ UNCHANGED <<r_pc, r_fd>>
  /\ UNCHANGED <<fsVars, wVars, histVars>>
  /\ UNCHANGED notIO

\* end of file: the file is closed, read_jsonl returns
REof ==
  /\ r_pc = "reading"
  /\ r_pos >= Len(io_inode[r_fd])
  /\ r_pc' = "done"
  /\ r_fd' = 0
  /\ UNCHANGED <<r_pos, r_seen>>
  /\ UNCHANGED <<fsVars, wVars, histVars>>
  /\ UNCHANGED notIO

NextIO ==
  \/ \E w \in Writers :
       \/ WCall(w) \/ WAcquire(w) \/ WOpenTmp(w) \/ WWriteLine(w)
       \/ WClose(w) \/ WReplace(w) \/ WRelease(w) \/ WInterrupt(w)
  \/ ROpen \/ RReadLine \/ REof

(***************************************************************************)
(* Spec: the editor.  A step is one run of the script for one session, with *)
(* the button that was clicked: the whole handler, its write_jsonl call    *)
(* included.  write_jsonl is one step here (SpecIO has its steps); it      *)
(* either runs to its end or raises and leaves the file as it was.         *)
(***************************************************************************)

Sessions == {1}

\* MODEL, the configured model name (the default of MY_MODEL_NAME)
MODEL == "gpt-4o-mini"

\* the users of secrets.toml
Users == {"alice"}

\* qa_draft is None
NoDraft == [q |-> "", a |-> "", some |-> FALSE]
Draft(q, a) == [q |-> q, a |-> a, some |-> TRUE]

\* auth_user is None
NoUser == ""

\* what the generation service returns for the question and the answer
Questions == {"Q1"}
Answers   == {"A1"}

\* what the user types over a question and an answer of an existing pair
EditedQ == {"Q2"}
EditedA == {"A2"}

\* the most turns a record is let grow to
MaxTurns == 4

\* dict.get(k, default)
Get(d, k, default) == IF k \in DOMAIN d THEN d[k] ELSE default

\* d[k] = v
DictSet(d, k, v) == [x \in DOMAIN d \cup {k} |-> IF x = k THEN v ELSE d[x]]

Turn(role, content) == [role |-> role, content |-> content]

\* messages.extend([user turn, assistant turn]) with the turns in the other order
ExtendMessagesSwapped(messages, q, a) ==
  messages \o <<Turn("assistant", a), Turn("user", q)>>

\* messages.extend([{"role": "user", ...}, {"role": "assistant", ...}])
ExtendMessages(messages, q, a) ==
  messages \o <<Turn("user", q), Turn("assistant", a)>>

\* del new_msgs[0: 2], whatever the position
DeleteFirstPair(messages, i) == SubSeq(messages, 3, Len(messages))

\* new_msgs = messages.copy(); del new_msgs[i: i+2]   (i counts from 0)
DeletePairAt(messages, i) ==
  SubSeq(messages, 1, i) \o SubSeq(messages, i + 3, Len(messages))

\* messages[i]["content"] = new_q and messages[i+1]["content"] = new_a, each
\* if the index exists (i counts from 0)
EditPairAt(messages, i, new_q, new_a) ==
  [j \in 1..Len(messages) |->
     IF j = i + 1 THEN DictSet(messages[j], "content", new_q)
     ELSE IF j = i + 2 THEN DictSet(messages[j], "content", new_a)
     ELSE messages[j]]

\* item["model"] = MODEL, whatever it was
SetModelAlways(item) == DictSet(item, "model", MODEL)

\* if not item.get("model"): item["model"] = MODEL
SetModelOnce(item) ==
  IF Get(item, "model", "") = "" THEN DictSet(item, "model", MODEL) ELSE item

\* a write_jsonl call that is made again when it raises (the second call
\* runs to its end)
TryWriteRetrying(f, items, ok) ==
  [file |-> write_jsonl(items), raised |-> FALSE, calls |-> IF ok THEN 1 ELSE 2]

\* try: write_jsonl(DATA_JSONL, items) except Exception: one call; ok tells
\* whether it runs to its end or raises, leaving the file as it was
TryWrite(f, items, ok) ==
  [file |-> IF ok THEN write_jsonl(items) ELSE f, raised |-> ~ok, calls |-> 1]

\* the records a file may hold when the sessions start
AppRecEmpty == [image_path |-> "a.jpg", text |-> "T1", messages |-> <<>>]
AppRecPair  == [image_path |-> "b.jpg", text |-> "T2",
                messages |-> <<Turn("user", "Q"), Turn("assistant", "A")>>]
AppRecTwoPairs ==
  [image_path |-> "c.jpg", text |-> "T3", model |-> "m0", contributor |-> "bob",
   messages |-> <<Turn("user", "Q"), Turn("assistant", "A"),
                  Turn("user", "Qb"), Turn("assistant", "Ab")>>]
\* a dangling turn, and a model that is the empty string
AppRecOdd ==
  [image_path |-> "d.jpg", text |-> "", model |-> "",
   messages |-> <<Turn("user", "Q")>>]

\* the file when the sessions start: missing, or holding records
AppInitialFiles ==
  { NoFile,
    write_jsonl(<<AppRecEmpty, AppRecPair>>),
    write_jsonl(<<AppRecTwoPairs, AppRecEmpty>>),
    write_jsonl(<<AppRecOdd, AppRecPair>>),
    write_jsonl(<<AppRecPair, AppRecTwoPairs>>) }

\* the script runs (clicks) of a behaviour
MaxRuns == 6

\* item = st.session_state.data_items[st.session_state.idx]
Item(s) == data_items[s][idx[s] + 1]

\* the script gets as far as the buttons of the main area: total is not 0
\* (st.stop()) and data_items[idx] exists
Renders(s) == Len(data_items[s]) > 0 /\ idx[s] < Len(data_items[s])

need_login(s) == auth_user[s] = NoUser

\* st.session_state.data_items[st.session_state.idx] = item
StoreItem(s, item) == [data_items EXCEPT ![s] = [@ EXCEPT ![idx[s] + 1] = item]]

\* what the last run did: the button, the session, the position of the pair,
\* whether its write_jsonl call ran to its end, how many calls it made, and
\* the message it showed
Ran(op, s, p, ok, calls, msg) ==
  [op |-> op, s |-> s, p |-> p, ok |-> ok, calls |-> calls, msg |-> msg]

InitApp ==
  /\ file \in AppInitialFiles
  /\ data_items = [s \in Sessions |-> read_jsonl(file)]
  /\ idx = [s \in Sessions |-> 0]
  /\ qa_draft = [s \in Sessions |-> NoDraft]
  /\ auth_user = [s \in Sessions |-> NoUser]
  /\ last = Ran("start", 0, 0, TRUE, 0, "")
  /\ runs_left = MaxRuns

\* no session
IdleApp ==
  /\ file = NoFile
  /\ data_items = [s \in Sessions |-> <<>>]
  /\ idx = [s \in Sessions |-> 0]
  /\ qa_draft = [s \in Sessions |-> NoDraft]
  /\ auth_user = [s \in Sessions |-> NoUser]
  /\ last = Ran("off", 0, 0, TRUE, 0, "")
  /\ runs_left = 0

\* the login form, with a good password
Login(s) ==
  /\ runs_left > 0
  /\ runs_left' = runs_left - 1
  /\ auth_user[s] = NoUser
  /\ \E u \in Users : auth_user' = [auth_user EXCEPT ![s] = u]
  /\ last' = Ran("login", s, 0, TRUE, 0, "success")
  /\ UNCHANGED <<data_items, idx, qa_draft, file>>
  /\ UNCHANGED notApp

Logout(s) ==
  /\ runs_left > 0
  /\ runs_left' = runs_left - 1
  /\ auth_user[s] # NoUser
  /\ auth_user' = [auth_user EXCEPT ![s] = NoUser]
  /\ last' = Ran("logout", s, 0, TRUE, 0, "")
  /\ UNCHANGED <<data_items, idx, qa_draft, file>>
  /\ UNCHANGED notApp

\* the dice button: a record without messages, picked at random
RandomPick(s) ==
  /\ runs_left > 0
  /\ runs_left' = runs_left - 1
  /\ Renders(s)
  /\ LET empty_indices ==
           { i \in 0..(Len(data_items[s]) - 1) :
               Get(data_items[s][i + 1], "messages", <<>>) = <<>> }
     IN  IF empty_indices = {}
         THEN /\ last' = Ran("pick", s, 0, TRUE, 0, "info")
              /\ UNCHANGED <<idx, qa_draft>>
         ELSE /\ \E i \in empty_indices : idx' = [idx EXCEPT ![s] = i]
              /\ qa_draft' = [qa_draft EXCEPT ![s] = NoDraft]
              /\ last' = Ran("pick", s, 0, TRUE, 0, "")
  /\ UNCHANGED <<data_items, auth_user, file>>
  /\ UNCHANGED notApp

\* the flag button: the record's contributor becomes the user
Flag(s) ==
  /\ runs_left > 0
  /\ runs_left' = runs_left - 1
  /\ Renders(s)
  /\ ~need_login(s)
  /\ \E ok \in BOOLEAN :
       LET item == DictSet(Item(s), "contributor", auth_user[s])
           w    == TryWrite(file, StoreItem(s, item)[s], ok)
       IN  /\ data_items' = StoreItem(s, item)
           /\ file' = w.file
           /\ last' = Ran("flag", s, 0, ok, w.calls,
                          IF w.raised THEN "error" ELSE "success")
  /\ UNCHANGED <<idx, qa_draft, auth_user>>
  /\ UNCHANGED notApp

\* the add button: a question and an answer are generated into the draft
Generate(s) ==
  /\ runs_left > 0
  /\ runs_left' = runs_left - 1
  /\ Renders(s)
  /\ ~need_login(s)
  /\ ~qa_draft[s].some
  /\ \E q \in Questions, a \in Answers :
       qa_draft' = [qa_draft EXCEPT ![s] = Draft(q, a)]
  /\ last' = Ran("generate", s, 0, TRUE, 0, "")
  /\ UNCHANGED <<data_items, idx, auth_user, file>>
  /\ UNCHANGED notApp

\* the save button of the draft; q and a are what the two fields hold, the
\* draft's texts or what the user made of them
SaveDraft(s) ==
  /\ runs_left > 0
  /\ runs_left' = runs_left - 1
  /\ Renders(s)
  /\ ~need_login(s)
  /\ qa_draft[s].some
  /\ \E q \in {qa_draft[s].q, ""}, a \in {qa_draft[s].a, ""}, ok \in BOOLEAN :
       IF q = "" \/ a = ""
       THEN /\ last' = Ran("add", s, 0, TRUE, 0, "warning")
            /\ UNCHANGED <<data_items, qa_draft, file>>
       ELSE /\ Len(Get(Item(s), "messages", <<>>)) + 2 <= MaxTurns
            /\ LET messages == ExtendMessages(Get(Item(s), "messages", <<>>), q, a)
                   item1 == DictSet(Item(s), "messages", messages)
                   item2 == SetModelOnce(item1)
                   item3 == DictSet(item2, "contributor", auth_user[s])
                   w     == TryWrite(file, StoreItem(s, item3)[s], ok)
               IN  /\ data_items' = StoreItem(s, item3)
                   /\ file' = w.file
                   /\ qa_draft' = IF w.raised THEN qa_draft
                                  ELSE [qa_draft EXCEPT ![s] = NoDraft]
                   /\ last' = Ran("add", s, 0, ok, w.calls,
                                  IF w.raised THEN "error" ELSE "success")
  /\ UNCHANGED <<idx, auth_user>>
  /\ UNCHANGED notApp

\* the cancel button of the draft
CancelDraft(s) ==
  /\ runs_left > 0
  /\ runs_left' = runs_left - 1
  /\ Renders(s)
  /\ qa_draft[s].some
  /\ qa_draft' = [qa_draft EXCEPT ![s] = NoDraft]
  /\ last' = Ran("cancel", s, 0, TRUE, 0, "success")
  /\ UNCHANGED <<data_items, idx, auth_user, file>>
  /\ UNCHANGED notApp

\* the positions the existing-pairs loop shows: range(0, len(messages), 2)
PairPositions(s) ==
  { i \in 0..(Len(Get(Item(s), "messages", <<>>)) - 1) : i % 2 = 0 }

\* the delete button of the pair at position i
DeletePair(s) ==
  /\ runs_left > 0
  /\ runs_left' = runs_left - 1
  /\ Renders(s)
  /\ ~need_login(s)
  /\ \E i \in PairPositions(s), ok \in BOOLEAN :
       LET item == DictSet(Item(s), "messages", DeletePairAt(Item(s).messages, i))
           w    == TryWrite(file, StoreItem(s, item)[s], ok)
       IN  /\ data_items' = StoreItem(s, item)
           /\ file' = w.file
           /\ last' = Ran("delete", s, i, ok, w.calls,
                          IF w.raised THEN "error" ELSE "success")
  /\ UNCHANGED <<idx, qa_draft, auth_user>>
  /\ UNCHANGED notApp

\* the save button of the pair at position i, with the texts of its fields
EditPair(s) ==
  /\ runs_left > 0
  /\ runs_left' = runs_left - 1
  /\ Renders(s)
  /\ ~need_login(s)
  /\ \E i \in PairPositions(s), new_q \in EditedQ, new_a \in EditedA, ok \in BOOLEAN :
       LET item == DictSet(Item(s), "messages",
                           EditPairAt(Item(s).messages, i, new_q, new_a))
           w    == TryWrite(file, StoreItem(s, item)[s], ok)
       IN  /\ data_items' = StoreItem(s, item)
           /\ file' = w.file
           /\ last' = Ran("edit", s, i, ok, w.calls,
                          IF w.raised THEN "error" ELSE "success")
  /\ UNCHANGED <<idx, qa_draft, auth_user>>
  /\ UNCHANGED notApp

\* the reload button: data_items is read from the file again
Reload(s) ==
  /\ runs_left > 0
  /\ runs_left' = runs_left - 1
  /\ Renders(s)
  /\ data_items' = [data_items EXCEPT ![s] = read_jsonl(file)]
  /\ last' = Ran("reload", s, 0, TRUE, 0, "success")
  /\ UNCHANGED <<idx, qa_draft, auth_user, file>>
  /\ UNCHANGED notApp

\* the write-back button: the file is written from data_items as it is
Rewrite(s) ==
  /\ runs_left > 0
  /\ runs_left' = runs_left - 1
  /\ Renders(s)
  /\ ~need_login(s)
  /\ \E ok \in BOOLEAN :
       LET w == TryWrite(file, data_items[s], ok)
       IN  /\ file' = w.file
           /\ last' = Ran("rewrite", s, 0, ok, w.calls,
                          IF w.raised THEN "error" ELSE "success")
  /\ UNCHANGED <<data_items, idx, qa_draft, auth_user>>
  /\ UNCHANGED notApp

Next ==
  \E s \in Sessions :
    \/ Login(s) \/ Logout(s) \/ RandomPick(s) \/ Flag(s)
    \/ Generate(s) \/ SaveDraft(s) \/ CancelDraft(s)
    \/ DeletePair(s) \/ EditPair(s) \/ Reload(s) \/ Rewrite(s)

(***************************************************************************)
(* SpecShared: the file at DATA_JSONL shared by two browser sessions of    *)
(* the editor and by another process that prepares the file.  The sessions *)
(* run the handlers above; both have loaded the file as it was when they   *)
(* started.                                                                *)
(***************************************************************************)

\* two browser sessions, each with its own st.session_state
Browsers == {1, 2}

\* the handlers that mutate the current record and write the file
SaveOps == {"flag", "add", "delete", "edit"}

\* the file when the two sessions start
SharedInitialFiles ==
  { write_jsonl(<<AppRecTwoPairs, AppRecEmpty>>),
    write_jsonl(<<AppRecEmpty, AppRecPair>>) }

InitShared ==
  /\ file \in SharedInitialFiles
  /\ data_items = [s \in Browsers |-> read_jsonl(file)]
  /\ idx = [s \in Browsers |-> 0]
  /\ qa_draft = [s \in Browsers |-> NoDraft]
  /\ auth_user = [s \in Browsers |-> NoUser]
  /\ last = Ran("start", 0, 0, TRUE, 0, "")
  /\ runs_left = MaxRuns

\* another process puts a file with fewer records at DATA_JSONL: the first
\* n records of the file that is there
OtherProcessShortens ==
  /\ runs_left > 0
  /\ runs_left' = runs_left - 1
  /\ LET on_disk == read_jsonl(file)
     IN  \E n \in 0..(Len(on_disk) - 1) :
           file' = write_jsonl(SubSeq(on_disk, 1, n))
  /\ last' = Ran("other", 0, 0, TRUE, 1, "")
  /\ UNCHANGED <<data_items, idx, qa_draft, auth_user>>
  /\ UNCHANGED notApp

NextShared ==
  \/ \E s \in Browsers :
       \/ Login(s) \/ Logout(s) \/ RandomPick(s) \/ Flag(s)
       \/ Generate(s) \/ SaveDraft(s) \/ CancelDraft(s)
       \/ DeletePair(s) \/ EditPair(s) \/ Reload(s) \/ Rewrite(s)
  \/ OtherProcessShortens

(***************************************************************************)
(* The specifications                                                      *)
(***************************************************************************)

InitSpecSan == InitSan /\ IdleJsonl /\ IdleIO /\ IdleApp

SpecSan == InitSpecSan /\ [][NextSan]_vars

InitSpecJsonl == InitJsonl /\ IdleSan /\ IdleIO /\ IdleApp

SpecJsonl == InitSpecJsonl /\ [][NextJsonl]_vars

InitSpecIO == InitIO /\ IdleSan /\ IdleJsonl /\ IdleApp

SpecIO == InitSpecIO /\ [][NextIO]_vars

Init == InitApp /\ IdleSan /\ IdleJsonl /\ IdleIO

Spec == Init /\ [][Next]_vars

InitSpecShared == InitShared /\ IdleSan /\ IdleJsonl /\ IdleIO

SpecShared == InitSpecShared /\ [][NextShared]_vars

(***************************************************************************)
(* The claims                                                              *)
(***************************************************************************)

\* writer w is between taking the lock and giving it up
InSave(w) == w_pc[w] \in {"locked", "writing", "replace", "release"}

\* C1: at every point of a save, an interrupted save included, the file at
\* path holds the complete content from before the save or the complete
\* content saved, and a load that takes no lock never sees a file written
\* in part.
C1_AtomicSave ==
  /\ \A w \in Writers :
       /\ w_pc[w] \in {"locked", "writing", "replace"} => PathContent = w_pre[w]
       /\ w_pc[w] = "release" => PathContent = write_jsonl(w_items[w])
       /\ (w_pc[w] = "failed" /\ io_commits = w_start[w]) => PathContent = w_pre[w]
  /\ PathContent \in io_versions
  /\ r_pc = "done" => r_seen \in io_versions

\* C1 witness: a save was interrupted with its temporary file written in
\* full and not yet renamed; the file at path is as before the save, and a
\* load of it has finished.
C1_Witness ==
  \E w \in Writers :
    /\ w_pc[w] = "failed"
    /\ io_commits = w_start[w]
    /\ ContentAt(TmpPath(DATA_JSONL)) = write_jsonl(w_items[w])
    /\ PathContent = w_pre[w]
    /\ PathContent # write_jsonl(w_items[w])
    /\ r_pc = "done"
    /\ r_seen = PathContent

\* C2: two writers of the same path exclude each other: a writer is between
\* opening the temporary file and the end of the rename only while it holds
\* the lock, and no two writers are there at once.
C2_WritersExclusive ==
  /\ \A w \in Writers : InSave(w) => io_lock[LockPath(DATA_JSONL, w)] = w
  /\ \A w \in Writers, v \in Writers : (InSave(w) /\ InSave(v)) => w = v

\* C2 witness: one writer is writing the temporary file while the other has
\* called write_jsonl and waits for the lock.
C2_Witness ==
  \E w \in Writers, v \in Writers :
    /\ w_pc[w] = "writing"
    /\ w_pos[w] = 1
    /\ w_pc[v] = "acquire"

\* the messages of the current record of session s
Messages(s) == Get(Item(s), "messages", <<>>)

\* even length, and user, assistant, user, assistant, ...
WellPaired(m) ==
  /\ Len(m) % 2 = 0
  /\ \A j \in 1..Len(m) : m[j].role = IF j % 2 = 1 THEN "user" ELSE "assistant"

\* the run that made this step was a click of one of ops that got as far as
\* its write_jsonl call
Clicked(ops) == last'.op \in ops /\ last'.msg # "warning"

\* the records other than the current one, and the other fields of the
\* current one, are as they were
OnlyMessagesChange(s) ==
  /\ Len(data_items'[s]) = Len(data_items[s])
  /\ \A k \in 1..Len(data_items[s]) : k # idx[s] + 1 => data_items'[s][k] = data_items[s][k]
  /\ DOMAIN Item(s)' = DOMAIN Item(s) \cup {"messages"}
  /\ \A k \in DOMAIN Item(s) \ {"messages"} : Item(s)'[k] = Item(s)[k]

\* C7: when the write_jsonl call of an add, delete, edit or flag raises, the
\* failure is shown, the call is not made again, the record in memory has the
\* change that was tried, and after an add the draft is still there.
C7_FailedSaveReported ==
  [][ (Clicked({"add", "delete", "edit", "flag"}) /\ ~last'.ok) =>
        \A s \in Sessions : last'.s = s =>
        LET p == last'.p
            m == Messages(s)
            n == Messages(s)'
        IN  /\ last'.msg = "error"
            /\ last'.calls = 1
            /\ idx'[s] = idx[s]
            /\ last'.op = "add" =>
                 /\ qa_draft[s].some /\ qa_draft'[s] = qa_draft[s]
                 /\ n = m \o <<Turn("user", qa_draft[s].q), Turn("assistant", qa_draft[s].a)>>
            /\ last'.op = "delete" =>
                 n = SubSeq(m, 1, p) \o SubSeq(m, p + 3, Len(m))
            /\ last'.op = "edit" =>
                 /\ Len(n) = Len(m)
                 /\ n[p + 1].content \in EditedQ
                 /\ p + 2 <= Len(m) => n[p + 2].content \in EditedA
            /\ last'.op = "flag" =>
                 /\ Item(s)'.contributor = auth_user[s]
                 /\ auth_user[s] # NoUser
      ]_vars

\* C7 witness: the save of a draft has failed: the error is shown, the draft
\* is kept, the record in memory ends with the draft's pair, and the file
\* does not have it.
C7_Witness ==
  \E s \in Sessions :
    /\ last = Ran("add", s, 0, FALSE, 1, "error")
    /\ qa_draft[s].some
    /\ Len(Messages(s)) >= 2
    /\ Messages(s)[Len(Messages(s))] = Turn("assistant", qa_draft[s].a)
    /\ read_jsonl(file) # data_items[s]

\* the model of record k of session s, "" when it has none
ModelOf(items, k) == Get(items[k], "model", "")

\* C8: no add, edit, delete or flag changes a model that is not empty; the
\* add sets the model of the current record to MODEL when it is absent or
\* empty, and nothing else sets a model.
C8_ModelSetOnce ==
  [][ Clicked({"add", "delete", "edit", "flag"}) =>
        \A s \in Sessions : last'.s = s =>
            /\ Len(data_items'[s]) = Len(data_items[s])
            /\ \A k \in 1..Len(data_items[s]) :
                 LET old == ModelOf(data_items[s], k)
                     new == ModelOf(data_items'[s], k)
                 IN  /\ old # "" => new = old
                     /\ (old = "" /\ last'.op = "add" /\ k = idx[s] + 1) => new = MODEL
                     /\ (old = "" /\ ~(last'.op = "add" /\ k = idx[s] + 1)) => new = ""
      ]_vars

\* C8 witness: a pair was added to a record whose model was "m0", and the
\* model is still "m0".
C8_Witness ==
  \E s \in Sessions :
    /\ last.op = "add" /\ last.s = s /\ last.msg = "success"
    /\ Renders(s)
    /\ ModelOf(data_items[s], idx[s] + 1) = "m0"
    /\ Messages(s)[Len(Messages(s))] = Turn("assistant", "A1")

\* C9: deleting the pair at position p takes the turns at indices p and p+1
\* out of the current record's messages (the only pair deleted leaves []),
\* keeps the other turns in order, and leaves every other record, and the
\* other fields of this one, as they were.
C9_DeleteExact ==
  [][ Clicked({"delete"}) =>
        \A s \in Sessions : last'.s = s =>
        LET p == last'.p
            m == Messages(s)
            n == Messages(s)'
        IN  /\ p % 2 = 0 /\ p < Len(m)
            /\ Len(n) = Len(m) - (IF p + 2 <= Len(m) THEN 2 ELSE 1)
            /\ \A j \in 1..p : n[j] = m[j]
            /\ \A j \in (p + 1)..Len(n) : n[j] = m[j + 2]
            /\ Len(m) = 2 => n = <<>>
            /\ idx'[s] = idx[s]
            /\ OnlyMessagesChange(s)
      ]_vars

\* C9 witness: the only pair of the current record was deleted, its messages
\* are [], and the other record of the store still has its two pairs.
C9_Witness ==
  \E s \in Sessions :
    /\ last.op = "delete" /\ last.s = s /\ last.p = 0
    /\ data_items[s] = <<[AppRecPair EXCEPT !.messages = <<>>], AppRecTwoPairs>>
    /\ idx[s] = 0

\* C10: a record's messages that are of even length and alternate user,
\* assistant stay so over every add, delete and edit; the add appends one
\* (user, assistant) pair at the end, the delete takes out one pair at an
\* even position, the edit changes content only, not role or length.
C10_PairingKept ==
  [][ Clicked({"add", "delete", "edit"}) =>
        \A s \in Sessions : last'.s = s =>
        LET p == last'.p
            m == Messages(s)
            n == Messages(s)'
        IN  /\ WellPaired(m) => WellPaired(n)
            /\ last'.op = "add" =>
                 /\ Len(n) = Len(m) + 2
                 /\ SubSeq(n, 1, Len(m)) = m
                 /\ n[Len(m) + 1].role = "user"
                 /\ n[Len(m) + 2].role = "assistant"
            /\ last'.op = "delete" =>
                 /\ p % 2 = 0
                 /\ WellPaired(m) => Len(n) = Len(m) - 2
            /\ last'.op = "edit" =>
                 /\ Len(n) = Len(m)
                 /\ \A j \in 1..Len(m) :
                      /\ n[j].role = m[j].role
                      /\ DOMAIN n[j] = DOMAIN m[j]
                      /\ j \notin {p + 1, p + 2} => n[j] = m[j]
      ]_vars

\* C10 witness: the record that had the pairs (Q, A), (Qb, Ab) has, after a
\* delete, an add and an edit, the pairs (Q2, A2), (Q1, A1), well paired.
C10_Witness ==
  \E s \in Sessions :
    /\ last.op = "edit" /\ last.s = s
    /\ Renders(s)
    /\ Item(s).image_path = "c.jpg"
    /\ [j \in 1..Len(Messages(s)) |-> Messages(s)[j].content] = <<"Q2", "A2", "Q1", "A1">>
    /\ WellPaired(Messages(s))

\* a turn reduced to its role and content
NormalTurn(t) == [role |-> t.role, content |-> t.content]

\* a record with every turn of its messages reduced to role and content
NormalRecord(r) ==
  [k \in DOMAIN r |->
     IF k = "messages" THEN [i \in 1..Len(r[k]) |-> NormalTurn(r[k][i])] ELSE r[k]]

\* C3: loading what was saved gives the same records in the same order, the
\* unknown top-level fields kept, and every turn of messages reduced to
\* exactly role and content.
C3_RoundTripNormalized ==
  rt_pc = "loaded" => rt_out = [i \in 1..Len(rt_items) |-> NormalRecord(rt_items[i])]

\* C4: a file of N well-formed lines and one line that is not JSON loads as
\* exactly the N records, in file order.
C4_BadLineSkipped == rt_pc = "loaded_corrupted" => rt_out = rt_items

\* C4 witness: two records' lines with a line that is not JSON between
\* them, loaded.
C4_Witness ==
  /\ rt_pc = "loaded_corrupted"
  /\ Len(rt_items) = 2
  /\ Len(rt_file.lines) = 3
  /\ rt_file.lines[2] \in BadLines
  /\ ~loads(rt_file.lines[2]).ok
  /\ Len(rt_out) = 2

\* C5: sanitize_model_output is idempotent: sanitizing the sanitized text
\* gives the sanitized text again, for every input.
C5_Idempotent == san_pc = "twice" => san_twice = san_once

\* C6: for the input "gen1 ju4 tu2 pian4 zhe4 shi4b yi1 ke1 shu4b period"
\* (the provenance clause, then "this is a tree" and a full stop) the output
\* ends in the content and does not contain the provenance clause.
C6_TreeSentence ==
  (san_pc # "start" /\ san_in = TreeClause \o TreeContent)
    => (EndsWith(san_once, TreeContent) /\ ~Contains(san_once, TreeClause))

\* ---- C11 --------------------------------------------------------------
\* C11: whenever a session's store is not empty, its idx is the index of a
\* record of data_items at the point where the script fetches the current
\* record (0 <= idx < len(data_items)), whatever picks, adds, deletes, edits
\* and reloads came before, a reload of a file made shorter by another
\* process included.
C11_IdxInRange ==
  \A s \in DOMAIN data_items :
    Len(data_items[s]) > 0 => (0 <= idx[s] /\ idx[s] < Len(data_items[s]))

\* ---- C12 --------------------------------------------------------------
\* C12: no lost update between sessions.  Session t has durably saved a
\* mutation to its record; session s, whose data_items are the file as it
\* was loaded (equal to the file but for t's record), then durably saves a
\* mutation to a different record: the file still holds t's record as t
\* saved it.
C12_NoLostUpdate ==
  [][ \A s \in Browsers, t \in Browsers :
        LET before == read_jsonl(file)
            after  == read_jsonl(file')
            mine   == idx[s] + 1
            theirs == idx[t] + 1
        IN  ( /\ s # t
              /\ last.op \in SaveOps /\ last.msg = "success" /\ last.s = t
              /\ last'.op \in SaveOps /\ last'.msg = "success" /\ last'.s = s
              /\ mine # theirs
              /\ Len(data_items[s]) = Len(before)
              /\ mine \in 1..Len(before) /\ theirs \in 1..Len(before)
              /\ \A k \in 1..Len(before) :
                   k # theirs => data_items[s][k] = before[k] )
            => ( /\ Len(after) = Len(before)
                 /\ after[theirs] = before[theirs] ) ]_vars

\* ---- C13 --------------------------------------------------------------
\* how many times the pair (user q, assistant a) occurs in messages
PairCount(m, q, a) ==
  Cardinality({ i \in 1..(Len(m) - 1) :
                  m[i] = Turn("user", q) /\ m[i + 1] = Turn("assistant", a) })

\* C13: retrying a failed save is safe.  The save of a draft failed, the
\* user clicks save again on the same draft and this save succeeds: the
\* record's messages, in data_items and in the file, hold the draft's
\* (user, assistant) pair exactly once (the record held it at most once when
\* the retry was clicked).
C13_RetryOnce ==
  [][ \A s \in Sessions :
        ( /\ last.op = "add" /\ last.msg = "error" /\ last.s = s
          /\ last'.op = "add" /\ last'.msg = "success" /\ last'.s = s
          /\ qa_draft[s].some
          /\ PairCount(Messages(s), qa_draft[s].q, qa_draft[s].a) <= 1 )
        => LET q == qa_draft[s].q
               a == qa_draft[s].a
               on_disk == read_jsonl(file')[idx[s] + 1]
           IN  /\ PairCount(Messages(s)', q, a) = 1
               /\ PairCount(Get(on_disk, "messages", <<>>), q, a) = 1 ]_vars
====
